---- MODULE Spec2Model ----
(***************************************************************************)
(* Hand-gesture controlled particle tree.                                  *)
(*                                                                         *)
(*   LocalGestureService.processVideoFrame  (services/liveApiService.ts)   *)
(*   App processing loop                    (App.tsx)                      *)
(*   ChristmasTree "Gesture Logic" effect   (components/ChristmasTree.tsx) *)
(*                                                                         *)
(* Units.  Landmark coordinates are integers in 0..Grid standing for       *)
(* v/Grid; a raw handSpread is kept in hundredths; the normalised spread   *)
(* clamp((raw - 0.35)/0.65, 0, 1) is kept in units of 1/SpreadRange, which *)
(* makes it an exact integer; times are milliseconds; a velocity is the    *)
(* exact rational num/den in 1/second.                                     *)
(***************************************************************************)
EXTENDS Integers, Sequences, FiniteSets, TLC

VARIABLES
    now,                  \* Date.now() of the latest effect run
    handLandmarker,       \* LocalGestureService.handLandmarker is set
    drawingUtils,         \* LocalGestureService.drawingUtils is set
    isStreaming,          \* App state
    trackingResult,       \* App state, the prop of ChristmasTree
    loopScheduled,        \* a requestAnimationFrame(loop) callback is pending
    stateRef,             \* 0: Tree, 1: Explode, 2: Text
    lastSpreadRef,
    lastSwitchTimeRef,
    lastVelocityTimeRef,
    autoRotate,           \* controlsRef.current.autoRotate
    targetRadius,         \* targetRadius of the latest effect run, in 1/SpreadRange
    targetAzimuth,        \* targetAzimuth of the latest effect run, in pi/Grid (if steering)
    frame,                \* the frame last handed to processVideoFrame
    particles,            \* particlesRef.current
    isLoading,            \* ChristmasTree state: the font has not been loaded
    topStarVisible,       \* topStarRef.current.visible
    scenario,             \* history: the input case of the latest effect run
    velInRange,           \* history: every velocity so far was in [-1, 2]
    stateBeforeAbsent,    \* history: stateRef before the current run of absent-hand ticks
    faultSeen,            \* history: some earlier frame failed inside processVideoFrame
    lastTransAt,          \* history: time of the latest change of stateRef
    lastQualTime,         \* history: time of the latest qualifying trigger sample
    lastQualFired,        \* history: that sample changed stateRef
    animationFrameRef,    \* App: animationFrameRef.current, a requestAnimationFrame handle
    rafQueue,             \* handles requested and neither cancelled nor fired
    rafCounter,           \* the latest handle requestAnimationFrame returned
    effectPending,        \* the isStreaming effect of a committed render has not run yet
    effectMounted,        \* the isStreaming effect has run and its cleanup is registered
    appIsLoading,         \* App state isLoading
    initializing,         \* startProcessing awaits gestureService.initialize()
    error,                \* App state error
    camera,               \* VideoFeed: the closure of the camera effect, per mount
    mountCount,           \* VideoFeed: mounts so far
    instances             \* ChristmasTree: type and meshIndex of each particle built

vars == << now, handLandmarker, drawingUtils, isStreaming, trackingResult,
           loopScheduled, stateRef, lastSpreadRef, lastSwitchTimeRef,
           lastVelocityTimeRef, autoRotate, targetRadius, targetAzimuth, frame,
           particles, isLoading, topStarVisible, scenario,
           velInRange, stateBeforeAbsent, faultSeen, lastTransAt,
           lastQualTime, lastQualFired, animationFrameRef, rafQueue, rafCounter,
           effectPending, effectMounted, appIsLoading, initializing, error, camera,
           mountCount, instances >>

\* the state of the processing-loop lifecycle, of VideoFeed and of the particle build
LifecycleVars == << animationFrameRef, rafQueue, rafCounter, effectPending, effectMounted,
                    appIsLoading, initializing >>
CameraVars == << camera, mountCount >>
HostVars == << animationFrameRef, rafQueue, rafCounter, effectPending, effectMounted,
               appIsLoading, initializing, error, camera, mountCount, instances >>

(***************************************************************************)
(* Bounds of the model                                                     *)
(***************************************************************************)
\* Date.now() when ChristmasTree mounts (any value above the cooldown)
MountTime == 1000
\* the clock stops here
MaxTime == 3000
\* milliseconds between two effect runs
Deltas == {100, 200, 300}
\* milliseconds between two runs of the effect on its own
EffectDeltas == {100, 200, 300, 500, 1000}
\* raw spreads (hundredths) of the hand poses offered
Spreads == {20, 30, 48, 74, 90, 95}
\* particles built (the program builds 4500)
ParticleCount == 2
\* render ticks interleaved with gesture ticks and the font load
MaxRenderTicks == 4
\* render ticks of a blend towards a fixed target
MaxBlendTicks == 232
\* milliseconds between two gesture ticks while the scene is rendered
SceneDelta == 300
\* a blend is followed until the particles are this close (1/1000 scene units)
Epsilon == 100
\* render ticks after which the blend is that close
ConvergeTicks == 230
\* particles built by the construction loop (params.particleCount)
BuildCount == 7
\* mounts of the VideoFeed component
MaxMounts == 3
\* requestAnimationFrame handles handed out
MaxHandles == 7

(***************************************************************************)
(* Program constants                                                       *)
(***************************************************************************)
Grid == 1000
SpreadOffset == 35
SpreadRange == 65
SAMPLE_MS == 100
EXPANSION_SPEED_THRESHOLD == 2
CONTRACTION_SPEED_THRESHOLD == -1
COOLDOWN_MS == 800
FingerTolerance == 15
ThumbTolerance == 10

\* lerpSpeed = 0.03, in hundredths
lerpSpeed == 3

TREE == 0
EXPLODE == 1
TEXT == 2

(***************************************************************************)
(* Numbers                                                                 *)
(***************************************************************************)
Num(n) == [k |-> "num", v |-> n]
Undefined == [k |-> "undefined", v |-> 0]
NaN == [k |-> "NaN", v |-> 0]
Infinity == [k |-> "Infinity", v |-> 0]

RECURSIVE SqrtSearch(_, _, _)
SqrtSearch(n, lo, hi) ==
    IF lo >= hi THEN lo
    ELSE LET mid == (lo + hi + 1) \div 2
         IN  IF mid * mid <= n THEN SqrtSearch(n, mid, hi)
             ELSE SqrtSearch(n, lo, mid - 1)

\* Math.hypot, rounded down to the grid unit
Hypot(dx, dy) == SqrtSearch(dx * dx + dy * dy, 0, 2 * Grid)

(***************************************************************************)
(* Frames.  A frame is described by what the video element and the         *)
(* landmark detector report for it.  The hand poses are a fan: wrist at    *)
(* (500,900), the five fingertips on the line y = 500 spaced `raw` apart,  *)
(* so that with palm = 120 the spread is raw/100 exactly; a finger is      *)
(* extended or curled by where its PIP joint (thumb: IP joint) lies.  The  *)
(* whole hand is moved by (dx, dy) and then scaled by 1/shrink; landmark    *)
(* `nan` (if any) is reported with NaN coordinates.                        *)
(***************************************************************************)
Fingers == {"thumb", "index", "middle", "ring", "pinky"}

Tip(finger) ==
    CASE finger = "thumb" -> 4 [] finger = "index" -> 8 [] finger = "middle" -> 12
      [] finger = "ring" -> 16 [] finger = "pinky" -> 20

Pip(finger) ==
    CASE finger = "thumb" -> 3 [] finger = "index" -> 6 [] finger = "middle" -> 10
      [] finger = "ring" -> 14 [] finger = "pinky" -> 18

FanSlot(finger) ==
    CASE finger = "thumb" -> -2 [] finger = "index" -> -1 [] finger = "middle" -> 0
      [] finger = "ring" -> 1 [] finger = "pinky" -> 2

Pt(px, py) == [x |-> px, y |-> py]

\* landmark i of the fan, before the hand is moved
FanAt(f, i) ==
    IF i = 0 THEN Pt(500, 900)
    ELSE IF i = 9 THEN Pt(500, 900 - f.palm)
    ELSE IF i = 17 THEN Pt(600, 780)
    ELSE IF \E g \in Fingers : Tip(g) = i
         THEN LET g == CHOOSE h \in Fingers : Tip(h) = i
              IN  Pt(500 + FanSlot(g) * f.raw, 500)
    ELSE IF i = 3 THEN (IF "thumb" \in f.ext THEN Pt(600, 700) ELSE Pt(100, 780))
    ELSE IF \E g \in Fingers : Pip(g) = i
         THEN LET g == CHOOSE h \in Fingers : Pip(h) = i
              IN  IF g \in f.ext THEN Pt(500, 700) ELSE Pt(500, 400)
    ELSE Pt(500, 800)

\* a landmark as the detector reports it: finite coordinates, or NaN ones
LandmarkAt(f, i) ==
    [x |-> (FanAt(f, i).x + f.dx) \div f.shrink, y |-> (FanAt(f, i).y + f.dy) \div f.shrink,
     finite |-> i # f.nan]

\* result.landmarks[0] of the detector for frame f
Landmarks(f) == [i \in 0..(f.count - 1) |-> LandmarkAt(f, i)]

NoFrame ==
    [video |-> "ok", detect |-> "none", raw |-> 0, ext |-> {}, palm |-> 120,
     count |-> 21, canvas |-> FALSE, drawFails |-> FALSE, dx |-> 0, dy |-> 0,
     nan |-> -1, shrink |-> 1]

HandFrame(raw, ext, palm, count, canvas, drawFails) ==
    [video |-> "ok", detect |-> "hand", raw |-> raw, ext |-> ext, palm |-> palm,
     count |-> count, canvas |-> canvas, drawFails |-> drawFails, dx |-> 0, dy |-> 0,
     nan |-> -1, shrink |-> 1]

\* a 21-landmark hand of palm 120 moved by (dx, dy)
MovedHand(raw, ext, dx, dy) ==
    [HandFrame(raw, ext, 120, 21, TRUE, FALSE) EXCEPT !.dx = dx, !.dy = dy]

\* a 21-landmark hand of palm 120 whose landmark i has NaN coordinates
NaNHand(raw, ext, i) == [HandFrame(raw, ext, 120, 21, TRUE, FALSE) EXCEPT !.nan = i]

\* a 21-landmark hand of palm 120 with every coordinate multiplied by 1/2
ShrunkHand(raw, ext) == [HandFrame(raw, ext, 120, 21, TRUE, FALSE) EXCEPT !.shrink = 2]

\* the joints (not fingertips) read by processVideoFrame
UsedJoints == {0, 9, 17, 3, 6, 10, 14, 18}

AbsentFrame == [NoFrame EXCEPT !.canvas = TRUE]
ThrowingFrame == [NoFrame EXCEPT !.detect = "throws"]
ZeroSizeFrame == [NoFrame EXCEPT !.video = "zero"]

\* (the pointing pose of spread 30 has its index tip at (0.75, 0.5))
MainHands ==
    { HandFrame(r, Fingers, 120, 21, TRUE, FALSE) : r \in Spreads \ {48} } \cup
    { MovedHand(48, Fingers, -100, 50), MovedHand(30, {"index"}, 280, 0),
      HandFrame(95, {"index"}, 120, 21, TRUE, FALSE) }

\* the frames the running loop is offered
MainFrames ==
    MainHands \cup
    { AbsentFrame, ThrowingFrame, HandFrame(90, Fingers, 120, 20, TRUE, FALSE) }

\* the frames processVideoFrame is applied to on its own
FrameFamily ==
    { HandFrame(r, e, 120, 21, TRUE, FALSE) : r \in Spreads, e \in SUBSET Fingers } \cup
    { HandFrame(r, e, 0, 21, TRUE, FALSE) : r \in {30, 90}, e \in SUBSET Fingers } \cup
    { HandFrame(90, e, 120, 21, FALSE, FALSE) : e \in SUBSET Fingers } \cup
    { HandFrame(90, e, 120, n, TRUE, d) :
        e \in {Fingers, {"index"}}, n \in {20, 21}, d \in BOOLEAN } \cup
    { MovedHand(30, e, 280, 0) : e \in SUBSET Fingers } \cup
    { MovedHand(48, e, -100, 50) : e \in SUBSET Fingers } \cup
    { HandFrame(r, e, 60, 21, TRUE, FALSE) : r \in {74, 90}, e \in {Fingers, {}} } \cup
    { HandFrame(0, e, 0, 21, TRUE, FALSE) : e \in {Fingers, {}} } \cup
    { NaNHand(90, e, i) : e \in {Fingers, {"index"}, {"thumb"}}, i \in UsedJoints } \cup
    { ShrunkHand(r, e) : r \in {20, 48, 90}, e \in SUBSET Fingers } \cup
    { AbsentFrame, NoFrame, ThrowingFrame, ZeroSizeFrame }

(***************************************************************************)
(* LocalGestureService                                                     *)
(***************************************************************************)
noResult ==
    [x |-> Grid \div 2, y |-> Grid \div 2, isDetected |-> FALSE, gesture |-> "NONE",
     handSpread |-> Num(0)]

UsedLandmarks == {0, 9, 8, 6, 12, 10, 16, 14, 20, 18, 4, 3, 17}

\* Math.hypot of a NaN difference is NaN
PalmScale(landmarks) ==
    IF landmarks[0].finite /\ landmarks[9].finite
    THEN Num(Hypot(landmarks[0].x - landmarks[9].x, landmarks[0].y - landmarks[9].y))
    ELSE NaN

\* a comparison with a NaN operand is false
isFingerExtended(landmarks, tipIdx, pipIdx, palmScale) ==
    LET wrist == landmarks[0]
        tip == landmarks[tipIdx]
        pip == landmarks[pipIdx]
        dTip == Hypot(tip.x - wrist.x, tip.y - wrist.y)
        dPip == Hypot(pip.x - wrist.x, pip.y - wrist.y)
    IN  /\ wrist.finite /\ tip.finite /\ pip.finite /\ palmScale.k = "num"
        /\ 100 * dTip > 100 * dPip + palmScale.v * FingerTolerance

isThumbExtended(landmarks, palmScale) ==
    LET thumbTip == landmarks[4]
        thumbIP == landmarks[3]
        pinkyMCP == landmarks[17]
        dTip == Hypot(thumbTip.x - pinkyMCP.x, thumbTip.y - pinkyMCP.y)
        dIP == Hypot(thumbIP.x - pinkyMCP.x, thumbIP.y - pinkyMCP.y)
    IN  /\ thumbTip.finite /\ thumbIP.finite /\ pinkyMCP.finite /\ palmScale.k = "num"
        /\ 100 * dTip > 100 * dIP + palmScale.v * ThumbTolerance

RECURSIVE SumCoord(_, _, _)
SumCoord(landmarks, S, axis) ==
    IF S = {} THEN 0
    ELSE LET id == CHOOSE j \in S : TRUE
         IN  (IF axis = "x" THEN landmarks[id].x ELSE landmarks[id].y)
             + SumCoord(landmarks, S \ {id}, axis)

calculateCentroid(landmarks, specificIndices) ==
    Pt(SumCoord(landmarks, specificIndices, "x") \div Cardinality(specificIndices),
       SumCoord(landmarks, specificIndices, "y") \div Cardinality(specificIndices))

RECURSIVE TotalDist(_, _, _)
TotalDist(landmarks, S, centroid) ==
    IF S = {} THEN 0
    ELSE LET id == CHOOSE j \in S : TRUE
         IN  Hypot(landmarks[id].x - centroid.x, landmarks[id].y - centroid.y)
             + TotalDist(landmarks, S \ {id}, centroid)

allTips == {4, 8, 12, 16, 20}

\* faulty variant: the thumb rule is tried before the index rule
GestureOfThumbFirst(landmarks, palmScale) ==
    LET isIndexExtended == isFingerExtended(landmarks, 8, 6, palmScale)
        isMiddleExtended == isFingerExtended(landmarks, 12, 10, palmScale)
        isRingExtended == isFingerExtended(landmarks, 16, 14, palmScale)
        isPinkyExtended == isFingerExtended(landmarks, 20, 18, palmScale)
        areOthersCurled == ~isMiddleExtended /\ ~isRingExtended /\ ~isPinkyExtended
    IN  IF areOthersCurled /\ isThumbExtended(landmarks, palmScale)
        THEN [gesture |-> "POINTING", pointingTipIndex |-> 4]
        ELSE IF areOthersCurled /\ isIndexExtended
        THEN [gesture |-> "POINTING", pointingTipIndex |-> 8]
        ELSE [gesture |-> "GENERAL", pointingTipIndex |-> -1]

\* faulty variant: only the index finger can point
GestureOfIndexOnly(landmarks, palmScale) ==
    LET isIndexExtended == isFingerExtended(landmarks, 8, 6, palmScale)
        isMiddleExtended == isFingerExtended(landmarks, 12, 10, palmScale)
        isRingExtended == isFingerExtended(landmarks, 16, 14, palmScale)
        isPinkyExtended == isFingerExtended(landmarks, 20, 18, palmScale)
        areOthersCurled == ~isMiddleExtended /\ ~isRingExtended /\ ~isPinkyExtended
    IN  IF areOthersCurled /\ isIndexExtended
        THEN [gesture |-> "POINTING", pointingTipIndex |-> 8]
        ELSE [gesture |-> "GENERAL", pointingTipIndex |-> -1]

\* the gesture label and pointingTipIndex
GestureOf(landmarks, palmScale) ==
    LET isIndexExtended == isFingerExtended(landmarks, 8, 6, palmScale)
        isMiddleExtended == isFingerExtended(landmarks, 12, 10, palmScale)
        isRingExtended == isFingerExtended(landmarks, 16, 14, palmScale)
        isPinkyExtended == isFingerExtended(landmarks, 20, 18, palmScale)
        areOthersCurled == ~isMiddleExtended /\ ~isRingExtended /\ ~isPinkyExtended
    IN  IF areOthersCurled /\ isIndexExtended
        THEN [gesture |-> "POINTING", pointingTipIndex |-> 8]
        ELSE IF areOthersCurled /\ isThumbExtended(landmarks, palmScale)
        THEN [gesture |-> "POINTING", pointingTipIndex |-> 4]
        ELSE [gesture |-> "GENERAL", pointingTipIndex |-> -1]

\* faulty variant: the mean fingertip distance is not divided by palmScale
\* (it is divided by the palm length of a hand at full size)
HandSpreadOfAbsolute(landmarks, palmScale) ==
    LET centroid == calculateCentroid(landmarks, allTips)
        totalDist == TotalDist(landmarks, allTips, centroid)
    IN  Num((totalDist * 100) \div (5 * 120))

\* (totalDist / 5) / palmScale in hundredths; a zero palmScale divides by zero
HandSpreadOf(landmarks, palmScale) ==
    LET centroid == calculateCentroid(landmarks, allTips)
        totalDist == TotalDist(landmarks, allTips, centroid)
    IN  IF palmScale.k # "num" THEN NaN
        ELSE IF palmScale.v = 0
        THEN (IF totalDist = 0 THEN NaN ELSE Infinity)
        ELSE Num((totalDist * 100) \div (5 * palmScale.v))

\* faulty variant: without a pointing finger the target stays at its initial (0.5, 0.5)
TargetOfDefault(landmarks, g) ==
    IF g.gesture = "POINTING" /\ g.pointingTipIndex # -1
    THEN Pt(landmarks[g.pointingTipIndex].x, landmarks[g.pointingTipIndex].y)
    ELSE Pt(Grid \div 2, Grid \div 2)

TargetOf(landmarks, g) ==
    IF g.gesture = "POINTING" /\ g.pointingTipIndex # -1
    THEN Pt(landmarks[g.pointingTipIndex].x, landmarks[g.pointingTipIndex].y)
    ELSE calculateCentroid(landmarks, allTips)

\* faulty variant: x is passed through unmirrored
DetectedResultUnmirrored(landmarks) ==
    LET palmScale == PalmScale(landmarks)
        g == GestureOf(landmarks, palmScale)
        target == TargetOf(landmarks, g)
    IN  [x |-> target.x, y |-> target.y, isDetected |-> TRUE,
         gesture |-> g.gesture, handSpread |-> HandSpreadOf(landmarks, palmScale)]

DetectedResult(landmarks) ==
    LET palmScale == PalmScale(landmarks)
        g == GestureOf(landmarks, palmScale)
        target == TargetOf(landmarks, g)
    IN  [x |-> Grid - target.x, y |-> target.y, isDetected |-> TRUE,
         gesture |-> g.gesture, handSpread |-> HandSpreadOf(landmarks, palmScale)]

\* reading a landmark the detector did not report throws a TypeError
ExtractionThrows(f) == \E i \in UsedLandmarks : i \notin 0..(f.count - 1)

\* drawDebug is reached and throws
DrawThrows(f) == f.canvas /\ f.drawFails

\* something throws inside the try block
ThrowsInTry(f) ==
    \/ f.detect = "throws"
    \/ f.detect = "hand" /\ (ExtractionThrows(f) \/ DrawThrows(f))

\* faulty variant: the catch block rethrows
OnFrameErrorRethrows == [threw |-> TRUE, result |-> noResult]

\* the catch block
OnFrameError == [threw |-> FALSE, result |-> noResult]

Returned(r) == [threw |-> FALSE, result |-> r]

\* the same frame, processVideoFrame called without a debugCanvas
WithoutCanvas(f) == [f EXCEPT !.canvas = FALSE]

\* DetectedResult of every hand pose whose landmarks can all be read, computed once
DetectedTable ==
    [f \in {h \in FrameFamily \cup MainFrames \cup
                   {WithoutCanvas(g) : g \in FrameFamily \cup MainFrames} :
                h.detect = "hand" /\ ~ExtractionThrows(h)}
        |-> DetectedResult(Landmarks(f))] @@ << >>

processVideoFrame(initialised, f) ==
    IF ~initialised THEN Returned(noResult)
    ELSE IF f.video = "zero" THEN Returned(noResult)
    ELSE IF ThrowsInTry(f) THEN OnFrameError
    ELSE IF f.detect = "hand" THEN Returned(DetectedTable[f])
    ELSE Returned(noResult)

\* drawDebug creates the DrawingUtils on its first use
DrawingUtilsAfter(initialised, du, f) ==
    du \/ ( /\ initialised /\ f.video = "ok" /\ f.detect = "hand"
            /\ ~ExtractionThrows(f) /\ f.canvas )

(***************************************************************************)
(* ChristmasTree: the Gesture Logic effect                                 *)
(***************************************************************************)
\* faulty variant: the raw spread is shifted but not clamped
NormalizedSpreadUnclamped(handSpread) ==
    IF handSpread.k = "Infinity" THEN 1000 * SpreadRange
    ELSE IF handSpread.k # "num" THEN 0 - SpreadOffset
    ELSE handSpread.v - SpreadOffset

\* faulty variant: Math.max(0, ...) without Math.min(1, ...)
NormalizedSpreadLowerOnly(handSpread) ==
    IF handSpread.k = "Infinity" THEN 1000 * SpreadRange
    ELSE IF handSpread.k # "num" THEN 0
    ELSE IF handSpread.v - SpreadOffset < 0 THEN 0
    ELSE handSpread.v - SpreadOffset

\* clamp((handSpread || 0) - 0.35) / 0.65, 0, 1), in units of 1/SpreadRange
NormalizedSpread(handSpread) ==
    IF handSpread.k = "Infinity" THEN SpreadRange
    ELSE IF handSpread.k # "num" THEN 0
    ELSE IF handSpread.v - SpreadOffset < 0 THEN 0
    ELSE IF handSpread.v - SpreadOffset > SpreadRange THEN SpreadRange
    ELSE handSpread.v - SpreadOffset

\* 200 - (spread * 145), in units of 1/SpreadRange
TargetRadius(spread) == 200 * SpreadRange - spread * 145

\* faulty variant: a sample is taken at 0.1 s sharp
SampleDueInclusive(timeDelta) == timeDelta >= SAMPLE_MS

\* timeDelta > 0.1
SampleDue(timeDelta) == timeDelta > SAMPLE_MS

\* faulty variant: the time difference is left in milliseconds
VelocityPerMs(spread, lastSpread, timeDelta) ==
    [num |-> spread - lastSpread, den |-> SpreadRange * timeDelta]

\* (spread - lastSpreadRef.current) / timeDelta
Velocity(spread, lastSpread, timeDelta) ==
    [num |-> (spread - lastSpread) * 1000, den |-> SpreadRange * timeDelta]

\* faulty variant: the threshold itself already triggers
AboveOrEqual(velocity, threshold) == velocity.num >= threshold * velocity.den

Above(velocity, threshold) == velocity.num > threshold * velocity.den
Below(velocity, threshold) == velocity.num < threshold * velocity.den

\* faulty variant: there is no cooldown
CooldownIgnored(t, lastSwitchTime) == TRUE

\* faulty variant: the cooldown ends at 800 ms sharp
CooldownInclusive(t, lastSwitchTime) == t - lastSwitchTime >= COOLDOWN_MS

\* now - lastSwitchTimeRef.current > COOLDOWN_MS
CooldownElapsed(t, lastSwitchTime) == t - lastSwitchTime > COOLDOWN_MS

\* faulty variant: a rapid expansion in EXPLODE returns to TREE
NextStateWithReturn(state, velocity) ==
    IF velocity.num > EXPANSION_SPEED_THRESHOLD * velocity.den
    THEN (IF state = TREE THEN EXPLODE ELSE TREE)
    ELSE IF velocity.num < CONTRACTION_SPEED_THRESHOLD * velocity.den
    THEN (IF state = EXPLODE THEN TEXT ELSE state)
    ELSE state

\* faulty variant: a rapid expansion in EXPLODE returns to TREE, as one in TEXT does
NextStateExplodeToTree(state, velocity) ==
    IF velocity.num > EXPANSION_SPEED_THRESHOLD * velocity.den
    THEN (IF state = TREE THEN EXPLODE ELSE TREE)
    ELSE IF velocity.num < CONTRACTION_SPEED_THRESHOLD * velocity.den
    THEN (IF state = EXPLODE THEN TEXT ELSE state)
    ELSE state

\* faulty variant: every gated sample restarts the cooldown
CommitSwitchTimeAlways(gate, nextState, state, t, lastSwitchTime) ==
    IF gate THEN t ELSE lastSwitchTime

\* lastSwitchTimeRef.current after the commit of nextState
CommitSwitchTime(gate, nextState, state, t, lastSwitchTime) ==
    IF gate /\ nextState # state THEN t ELSE lastSwitchTime

\* nextState of the velocity switch
NextState(state, velocity) ==
    IF Above(velocity, EXPANSION_SPEED_THRESHOLD)
    THEN (IF state = TREE THEN EXPLODE ELSE IF state = TEXT THEN TREE ELSE state)
    ELSE IF Below(velocity, CONTRACTION_SPEED_THRESHOLD)
    THEN (IF state = EXPLODE THEN TEXT ELSE state)
    ELSE state

\* controlsRef.current.autoRotate as the velocity switch leaves it
SwitchAutoRotate(rotating, state, velocity) ==
    IF Above(velocity, EXPANSION_SPEED_THRESHOLD)
    THEN (IF state = TREE THEN FALSE ELSE IF state = TEXT THEN TRUE ELSE rotating)
    ELSE IF Below(velocity, CONTRACTION_SPEED_THRESHOLD)
    THEN (IF state = EXPLODE THEN FALSE ELSE rotating)
    ELSE rotating

\* faulty variant: the steering never switches autoRotate off
SteeringAlwaysRotates(tr, rotating) == TRUE

\* faulty variant: the steering does not switch autoRotate back on
SteeringOnlyDisables(tr, rotating) ==
    IF tr.gesture = "POINTING" /\ tr.isDetected THEN FALSE ELSE rotating

\* controlsRef.current.autoRotate as the camera steering leaves it
SteeringAutoRotate(tr, rotating) ==
    IF tr.gesture = "POINTING" /\ tr.isDetected THEN FALSE ELSE TRUE

\* -(trackingResult.x - 0.5) * Math.PI * 4, in units of pi/Grid
TargetAzimuth(x) == -(x - Grid \div 2) * 4

\* the targetAzimuth of a run: computed in the POINTING branch only
SteeringAzimuth(tr) ==
    IF tr.gesture = "POINTING" /\ tr.isDetected THEN Num(TargetAzimuth(tr.x)) ELSE Undefined

\* a velocity beyond the threshold that has a rule for the state (the transition table)
Qualifies(state, ds, dt) ==
    \/ state \in {TREE, TEXT} /\ ds * 1000 > 2 * SpreadRange * dt
    \/ state = EXPLODE /\ ds * 1000 < -1 * SpreadRange * dt

\* the input case of a run: raw 0.30 -> 0.95 in 200 ms in TREE, raw 0.9 -> 0.2 in
\* 300 ms in EXPLODE, the full range in 500 ms (up) or 1000 ms (down), a velocity of
\* exactly 2.0 or exactly -1.0, a velocity beyond a threshold that has no rule in
\* the state, each with the sample due and the cooldown elapsed
ScenarioOf(tr, gate, state, lastSpread, timeDelta) ==
    IF gate /\ state = TREE /\ lastSpread = NormalizedSpread(Num(30))
            /\ tr.handSpread = Num(95) /\ timeDelta = 200
    THEN "expand"
    ELSE IF gate /\ state = EXPLODE /\ lastSpread = NormalizedSpread(Num(90))
                 /\ tr.handSpread = Num(20) /\ timeDelta = 300
    THEN "contract"
    ELSE IF gate /\ state \in {TREE, TEXT} /\ timeDelta = 500
                 /\ NormalizedSpread(tr.handSpread) - lastSpread = SpreadRange
    THEN "fullExpandIn500"
    ELSE IF gate /\ state = EXPLODE /\ timeDelta = 1000
                 /\ NormalizedSpread(tr.handSpread) - lastSpread = 0 - SpreadRange
    THEN "fullContractIn1000"
    ELSE IF gate /\ (NormalizedSpread(tr.handSpread) - lastSpread) * 1000
                    = 2 * SpreadRange * timeDelta
    THEN "atExpandThreshold"
    ELSE IF gate /\ (NormalizedSpread(tr.handSpread) - lastSpread) * 1000
                    = -1 * SpreadRange * timeDelta
    THEN "atContractThreshold"
    ELSE IF gate /\ state = EXPLODE
                 /\ (NormalizedSpread(tr.handSpread) - lastSpread) * 1000
                       > 2 * SpreadRange * timeDelta
    THEN "expandInExplode"
    ELSE IF gate /\ state \in {TREE, TEXT}
                 /\ (NormalizedSpread(tr.handSpread) - lastSpread) * 1000
                       < -1 * SpreadRange * timeDelta
    THEN "contractNoRule"
    ELSE "other"

\* one run of the effect for the tracking result tr at Date.now() = t
\* (each local value of the effect is bound once, in the order the code computes it)
GestureEffect(tr, t) ==
    \E spread \in {NormalizedSpread(tr.handSpread)}, timeDelta \in {t - lastVelocityTimeRef} :
    \E sampled \in {SampleDue(timeDelta)},
       velocity \in {Velocity(spread, lastSpreadRef, timeDelta)} :
    \E gate \in {sampled /\ CooldownElapsed(t, lastSwitchTimeRef)} :
    \E nextState \in {IF gate THEN NextState(stateRef, velocity) ELSE stateRef},
       rotating \in {IF gate THEN SwitchAutoRotate(autoRotate, stateRef, velocity)
                     ELSE autoRotate},
       ds \in {spread - lastSpreadRef} :
    \E fired \in {nextState # stateRef},
       qual \in {sampled /\ Qualifies(stateRef, ds, timeDelta)},
       close \in {lastQualTime >= 0 /\ t - lastQualTime < 800} :
        /\ now' = t
        /\ stateRef' = nextState
        /\ lastSwitchTimeRef' = CommitSwitchTime(gate, nextState, stateRef, t, lastSwitchTimeRef)
        /\ lastSpreadRef' = IF sampled THEN spread ELSE lastSpreadRef
        /\ lastVelocityTimeRef' = IF sampled THEN t ELSE lastVelocityTimeRef
        /\ autoRotate' = SteeringAutoRotate(tr, rotating)
        /\ targetRadius' = TargetRadius(spread)
        /\ targetAzimuth' = SteeringAzimuth(tr)
        /\ scenario' = ScenarioOf(tr, gate, stateRef, lastSpreadRef, timeDelta)
        /\ velInRange' = ( velInRange /\
                           (sampled => /\ ds * 1000 >= -1 * SpreadRange * timeDelta
                                       /\ ds * 1000 <= 2 * SpreadRange * timeDelta) )
        /\ lastTransAt' = IF fired THEN t ELSE lastTransAt
        /\ lastQualTime' = IF qual THEN t ELSE IF close THEN lastQualTime ELSE -1
        /\ lastQualFired' = IF qual THEN fired ELSE (close /\ lastQualFired)

TreeVars == << now, stateRef, lastSpreadRef, lastSwitchTimeRef, lastVelocityTimeRef,
               autoRotate, targetRadius, targetAzimuth, scenario, velInRange, lastTransAt,
               lastQualTime, lastQualFired >>

(***************************************************************************)
(* ChristmasTree: particles, font load and the animation loop.  Positions  *)
(* are vectors of integers in 1/1000 of a scene unit (two components are   *)
(* kept); a rotation is counted in increments of rotSpeed.                 *)
(***************************************************************************)
SceneVars == << particles, isLoading, topStarVisible >>

\* p.treePos of particle i (the code adds random jitter to a spiral)
TreePosOf(i) == IF i = 0 THEN Pt(-3000, -15000) ELSE Pt(1500, 2000)

\* p.explodePos of particle i (a random point of a shell)
ExplodePosOf(i) == IF i = 0 THEN Pt(40000, 25000) ELSE Pt(-50000, -10000)

\* points smp.sample(tmp) can return on the text mesh
TextSamples == { Pt(-20000, 6000), Pt(12000, -6000) }

\* faulty variant: textPos is left at the origin
NewParticleTextAtOrigin(treePos, explodePos) ==
    [currentPos |-> treePos, treePos |-> treePos, explodePos |-> explodePos,
     textPos |-> Pt(0, 0), rotation |-> 0]

\* the particle record after construction
NewParticle(treePos, explodePos) ==
    [currentPos |-> treePos, treePos |-> treePos, explodePos |-> explodePos,
     textPos |-> treePos, rotation |-> 0]

\* c + (t - c) * lerpSpeed on one component, cut to the position unit
Toward(c, t) ==
    IF t >= c THEN c + ((t - c) * lerpSpeed) \div 100
    ELSE c - ((c - t) * lerpSpeed) \div 100

\* faulty variant: alpha = 1
lerpFull(v, target) == target

\* Vector3.lerp(target, lerpSpeed)
lerp(v, target) == Pt(Toward(v.x, target.x), Toward(v.y, target.y))

\* the target of the formation state
ActiveTarget(p, state) ==
    IF state = EXPLODE THEN p.explodePos ELSE IF state = TEXT THEN p.textPos ELSE p.treePos

\* faulty variant: the tick also drags the tree target towards the particle
AnimateParticleDraggingTarget(p, state) ==
    [p EXCEPT !.currentPos = lerp(p.currentPos, ActiveTarget(p, state)),
              !.treePos = lerp(p.treePos, p.currentPos),
              !.rotation = p.rotation + 1]

\* the loop body of animate for one particle
AnimateParticle(p, state) ==
    [p EXCEPT !.currentPos = lerp(p.currentPos, ActiveTarget(p, state)),
              !.rotation = p.rotation + 1]

(***************************************************************************)
(* App                                                                     *)
(***************************************************************************)
\* the value App publishes at start-up and in stopProcessing
HostNeutral ==
    [x |-> Grid \div 2, y |-> Grid \div 2, isDetected |-> FALSE, gesture |-> "NONE",
     handSpread |-> Undefined]

HandAbsent(f) == f.video = "ok" /\ f.detect = "none"

\* the body of loop() once the video is ready, the effect it triggers included
LoopBody(t, f) ==
    \E r \in {processVideoFrame(handLandmarker', f)} :
        /\ frame' = f
        /\ UNCHANGED SceneVars
        /\ UNCHANGED HostVars
        /\ drawingUtils' = DrawingUtilsAfter(handLandmarker', drawingUtils, f)
        /\ faultSeen' = (faultSeen \/ ThrowsInTry(f))
        /\ IF r.threw
           THEN /\ loopScheduled' = FALSE
                /\ UNCHANGED << trackingResult, stateBeforeAbsent >>
                /\ UNCHANGED TreeVars
           ELSE /\ trackingResult' = r.result
                /\ GestureEffect(r.result, t)
                /\ loopScheduled' = TRUE
                /\ stateBeforeAbsent' =
                      IF HandAbsent(f)
                      THEN (IF stateBeforeAbsent = -1 THEN stateRef ELSE stateBeforeAbsent)
                      ELSE -1

\* the scene after the init effect: particles built, the font requested
InitScene ==
    /\ particles = [i \in 0..(ParticleCount - 1) |-> NewParticle(TreePosOf(i), ExplodePosOf(i))]
    /\ isLoading = TRUE
    /\ topStarVisible = TRUE

\* App, the service and the effect's samples before processing starts
InitControl ==
    /\ now = MountTime
    /\ handLandmarker = FALSE
    /\ drawingUtils = FALSE
    /\ isStreaming = FALSE
    /\ trackingResult = HostNeutral
    /\ loopScheduled = FALSE
    /\ lastSpreadRef = 0
    /\ lastVelocityTimeRef = MountTime
    /\ autoRotate = TRUE
    /\ targetRadius = TargetRadius(NormalizedSpread(HostNeutral.handSpread))
    /\ targetAzimuth = SteeringAzimuth(HostNeutral)
    /\ frame = NoFrame
    /\ scenario = "other"
    /\ velInRange = TRUE
    /\ stateBeforeAbsent = -1
    /\ faultSeen = FALSE
    /\ lastTransAt = -1
    /\ lastQualTime = -1
    /\ lastQualFired = FALSE
    /\ animationFrameRef = 0
    /\ rafQueue = {}
    /\ rafCounter = 0
    /\ effectPending = FALSE
    /\ effectMounted = FALSE
    /\ appIsLoading = FALSE
    /\ initializing = FALSE
    /\ error = "null"
    /\ camera = << >>
    /\ mountCount = 0
    /\ instances = << >>

Init ==
    /\ InitScene
    /\ stateRef = TREE
    /\ lastSwitchTimeRef = 0
    /\ InitControl

\* startProcessing: initialize() succeeds, the first loop() runs at once
StartProcessing ==
    \E d \in Deltas, f \in MainFrames :
        /\ ~isStreaming
        /\ now + d <= MaxTime
        /\ handLandmarker' = TRUE
        /\ isStreaming' = TRUE
        /\ LoopBody(now + d, f)

\* startProcessing: initialize() throws
StartFails ==
    /\ ~isStreaming
    /\ ~handLandmarker
    /\ isStreaming' = FALSE
    /\ UNCHANGED << handLandmarker, drawingUtils, trackingResult, loopScheduled, frame,
                    stateBeforeAbsent, faultSeen >>
    /\ UNCHANGED TreeVars
    /\ UNCHANGED SceneVars
    /\ UNCHANGED HostVars

\* a requestAnimationFrame callback of loop with the video ready
LoopTick ==
    \E d \in Deltas, f \in MainFrames :
        /\ loopScheduled
        /\ now + d <= MaxTime
        /\ UNCHANGED << handLandmarker, isStreaming >>
        /\ LoopBody(now + d, f)

\* a requestAnimationFrame callback of loop with the video not ready
LoopIdle ==
    /\ loopScheduled
    /\ loopScheduled' = TRUE
    /\ UNCHANGED << handLandmarker, drawingUtils, isStreaming, trackingResult, frame,
                    stateBeforeAbsent, faultSeen >>
    /\ UNCHANGED TreeVars
    /\ UNCHANGED SceneVars
    /\ UNCHANGED HostVars

\* stopProcessing, the effect it triggers included
StopProcessing ==
    \E d \in Deltas :
        /\ isStreaming
        /\ now + d <= MaxTime
        /\ loopScheduled' = FALSE
        /\ isStreaming' = FALSE
        /\ trackingResult' = HostNeutral
        /\ stateBeforeAbsent' = -1
        /\ GestureEffect(HostNeutral, now + d)
        /\ UNCHANGED << handLandmarker, drawingUtils, frame, faultSeen >>
        /\ UNCHANGED SceneVars
        /\ UNCHANGED HostVars

Next == StartProcessing \/ StartFails \/ LoopTick \/ LoopIdle \/ StopProcessing

Spec == Init /\ [][Next]_vars

(***************************************************************************)
(* processVideoFrame on its own                                            *)
(***************************************************************************)
\* initialize()
Initialize ==
    /\ ~handLandmarker
    /\ handLandmarker' = TRUE
    /\ UNCHANGED << drawingUtils, isStreaming, trackingResult, loopScheduled, frame,
                    stateBeforeAbsent, faultSeen >>
    /\ UNCHANGED TreeVars
    /\ UNCHANGED SceneVars
    /\ UNCHANGED HostVars

\* one call of processVideoFrame; trackingResult holds what it returned
ProcessFrame ==
    \E f \in FrameFamily :
        LET r == processVideoFrame(handLandmarker, f)
        IN  /\ ~r.threw
            /\ trackingResult' = r.result
            /\ frame' = f
            /\ drawingUtils' = DrawingUtilsAfter(handLandmarker, drawingUtils, f)
            /\ faultSeen' = (faultSeen \/ (handLandmarker /\ f.video = "ok" /\ ThrowsInTry(f)))
            /\ UNCHANGED << handLandmarker, isStreaming, loopScheduled, stateBeforeAbsent >>
            /\ UNCHANGED TreeVars
            /\ UNCHANGED SceneVars
            /\ UNCHANGED HostVars

NextFrame == Initialize \/ ProcessFrame

SpecFrame == Init /\ [][NextFrame]_vars

(***************************************************************************)
(* The Gesture Logic effect on its own: ChristmasTree re-rendered with any *)
(* tracking result the service or App can publish                          *)
(***************************************************************************)
\* hands of raw spread 0.2, 0.74, 1.48 and 1.8, and hands whose palmScale is 0
EffectFrames ==
    { HandFrame(20, Fingers, 120, 21, TRUE, FALSE), HandFrame(74, Fingers, 120, 21, TRUE, FALSE),
      HandFrame(74, Fingers, 60, 21, TRUE, FALSE), HandFrame(90, Fingers, 60, 21, TRUE, FALSE),
      HandFrame(30, Fingers, 0, 21, TRUE, FALSE), HandFrame(0, Fingers, 0, 21, TRUE, FALSE) }

EffectResults == { DetectedTable[f] : f \in EffectFrames } \cup { noResult, HostNeutral }

AppVars == << handLandmarker, drawingUtils, isStreaming, loopScheduled, frame,
             stateBeforeAbsent, faultSeen >>

\* the trackingResult prop changes to one of `results` and the effect runs
EffectRunWith(deltas, results) ==
    \E d \in deltas, tr \in results :
        /\ now + d <= MaxTime
        /\ trackingResult' = tr
        /\ GestureEffect(tr, now + d)
        /\ UNCHANGED AppVars
        /\ UNCHANGED SceneVars
        /\ UNCHANGED HostVars

EffectRun == EffectRunWith(EffectDeltas, EffectResults)

NextEffect == EffectRun

SpecEffect == Init /\ [][NextEffect]_vars

(***************************************************************************)
(* The scene: render ticks, the font load callback and gesture ticks       *)
(***************************************************************************)
\* one call of animate, while fewer than cap ticks have been rendered
AnimateUpTo(cap) ==
    /\ \A i \in DOMAIN particles : particles[i].rotation < cap
    /\ topStarVisible' = (stateRef = TREE)
    /\ particles' = [i \in DOMAIN particles |-> AnimateParticle(particles[i], stateRef)]
    /\ UNCHANGED << isLoading, trackingResult >>
    /\ UNCHANGED AppVars
    /\ UNCHANGED HostVars
    /\ UNCHANGED TreeVars

Animate == AnimateUpTo(MaxRenderTicks)

\* the onLoad callback of loader.load: every particle gets a sampled text position
FontLoad ==
    /\ isLoading
    /\ \E samples \in [DOMAIN particles -> TextSamples] :
          particles' = [i \in DOMAIN particles |-> [particles[i] EXCEPT !.textPos = samples[i]]]
    /\ isLoading' = FALSE
    /\ UNCHANGED << topStarVisible, trackingResult >>
    /\ UNCHANGED AppVars
    /\ UNCHANGED HostVars
    /\ UNCHANGED TreeVars

\* an open hand and a closed hand
SceneResults ==
    { DetectedTable[HandFrame(r, Fingers, 120, 21, TRUE, FALSE)] : r \in {20, 95} }

GestureTick == EffectRunWith({SceneDelta}, SceneResults)

NextScene == Animate \/ FontLoad \/ GestureTick

SpecScene == Init /\ [][NextScene]_vars

(***************************************************************************)
(* A blend: render ticks only, from any formation state, with the font     *)
(* loaded or not, the particles starting at one of their targets           *)
(***************************************************************************)
InitBlend ==
    \E state \in {TREE, EXPLODE, TEXT}, loaded \in BOOLEAN,
       samples \in [0..(ParticleCount - 1) -> TextSamples],
       start \in {TREE, EXPLODE, TEXT} :
        /\ InitControl
        /\ stateRef = state
        /\ lastSwitchTimeRef = (IF state = TREE THEN 0 ELSE MountTime)
        /\ isLoading = ~loaded
        /\ topStarVisible = (state = TREE)
        /\ particles =
              [i \in 0..(ParticleCount - 1) |->
                 LET p == [NewParticle(TreePosOf(i), ExplodePosOf(i)) EXCEPT
                             !.textPos = IF loaded THEN samples[i] ELSE TreePosOf(i)]
                 IN  [p EXCEPT !.currentPos = ActiveTarget(p, start)]]

Blend == AnimateUpTo(MaxBlendTicks)

NextBlend == Blend

SpecBlend == InitBlend /\ [][NextBlend]_vars

(***************************************************************************)
(* ChristmasTree: the particle construction loop.  The shape of a particle *)
(* is drawn with Math.random(); the two instanced meshes are allocated     *)
(* before the loop with fixed instance counts.                             *)
(***************************************************************************)
\* Math.floor(params.particleCount * 0.7)
sphereCount == (BuildCount * 7) \div 10

\* params.particleCount - sphereCount
cubeCount == BuildCount - sphereCount

\* the instance count the mesh of a shape was allocated with
CapacityOf(type) == IF type = "sphere" THEN sphereCount ELSE cubeCount

\* sI (or cI) when the loop reaches particle i: the earlier particles of that shape
CounterAt(types, i, type) == Cardinality({ j \in 0..(i - 1) : types[j] = type })

\* the init effect builds all particles; types[i] is the shape drawn for particle i
BuildParticles ==
    /\ instances = << >>
    /\ \E types \in [0..(BuildCount - 1) -> {"sphere", "cube"}] :
          instances' = [i \in 0..(BuildCount - 1) |->
                          [type |-> types[i], meshIndex |-> CounterAt(types, i, types[i])]]
    /\ UNCHANGED << now, handLandmarker, drawingUtils, isStreaming, trackingResult,
                    loopScheduled, frame, stateBeforeAbsent, faultSeen, stateRef,
                    lastSpreadRef, lastSwitchTimeRef, lastVelocityTimeRef, autoRotate,
                    targetRadius, targetAzimuth, scenario, velInRange, lastTransAt,
                    lastQualTime, lastQualFired >>
    /\ UNCHANGED SceneVars
    /\ UNCHANGED LifecycleVars
    /\ UNCHANGED CameraVars
    /\ UNCHANGED error

NextBuild == BuildParticles

SpecBuild == Init /\ [][NextBuild]_vars

(***************************************************************************)
(* VideoFeed: the camera effect.  Every mount of the component runs the    *)
(* effect with a closure of its own (isMounted, currentStream); the        *)
(* getUserMedia promises of an earlier mount may settle after its unmount. *)
(***************************************************************************)
Mounts == 1..MaxMounts

\* the tracks of a stream requested with video only
Tracks == {"video"}

\* the closure and the video element of a mount whose effect has just called startCamera()
NewCamera ==
    [phase |-> "preferred", attempts |-> 1, isMounted |-> TRUE, currentStream |-> FALSE,
     liveTracks |-> {}, srcObject |-> FALSE, play |-> "idle", isLoading |-> TRUE,
     hasPermissionError |-> FALSE]

\* faulty variant: a stream that arrives after the unmount is dropped with its tracks live
ResumedKeepingTracks(c) ==
    IF ~c.isMounted
    THEN [c EXCEPT !.phase = "discarded"]
    ELSE [c EXCEPT !.phase = "attached", !.currentStream = TRUE, !.srcObject = TRUE]

\* startCamera after `await getCameraStream()` has returned the stream
Resumed(c) ==
    IF ~c.isMounted
    THEN [c EXCEPT !.phase = "discarded", !.liveTracks = {}]
    ELSE [c EXCEPT !.phase = "attached", !.currentStream = TRUE, !.srcObject = TRUE]

\* the closure after the cleanup of the effect; videoRef.current may be null by then
CleanedUp(c, refAttached) ==
    [c EXCEPT !.isMounted = FALSE,
              !.liveTracks = IF c.currentStream THEN {} ELSE c.liveTracks,
              !.srcObject = IF refAttached THEN FALSE ELSE c.srcObject]

OtherVars == << now, handLandmarker, drawingUtils, isStreaming, trackingResult,
                loopScheduled, frame, stateBeforeAbsent, faultSeen, stateRef,
                lastSpreadRef, lastSwitchTimeRef, lastVelocityTimeRef, autoRotate,
                targetRadius, targetAzimuth, scenario, velInRange, lastTransAt,
                lastQualTime, lastQualFired, particles, isLoading, topStarVisible,
                animationFrameRef, rafQueue, rafCounter, effectPending, effectMounted,
                appIsLoading, initializing, instances >>

\* the component mounts and its effect calls startCamera()
Mount ==
    /\ mountCount < MaxMounts
    /\ mountCount > 0 => ~camera[mountCount].isMounted
    /\ mountCount' = mountCount + 1
    /\ camera' = camera @@ ((mountCount + 1) :> NewCamera)
    /\ UNCHANGED error
    /\ UNCHANGED OtherVars

\* getUserMedia({video: {facingMode: 'user'}}) resolves with a stream
PreferredResolves(i) ==
    /\ camera[i].phase = "preferred"
    /\ camera' = [camera EXCEPT ![i].phase = "resolved", ![i].liveTracks = Tracks]
    /\ UNCHANGED << mountCount, error >>
    /\ UNCHANGED OtherVars

\* it rejects: the catch block calls getUserMedia({video: true})
PreferredRejects(i) ==
    /\ camera[i].phase = "preferred"
    /\ camera' = [camera EXCEPT ![i].phase = "fallback", ![i].attempts = 2]
    /\ UNCHANGED << mountCount, error >>
    /\ UNCHANGED OtherVars

\* the fallback request resolves with a stream
FallbackResolves(i) ==
    /\ camera[i].phase = "fallback"
    /\ camera' = [camera EXCEPT ![i].phase = "resolved", ![i].liveTracks = Tracks]
    /\ UNCHANGED << mountCount, error >>
    /\ UNCHANGED OtherVars

\* the fallback request rejects too: the catch block of startCamera
FallbackRejects(i) ==
    /\ camera[i].phase = "fallback"
    /\ camera' = [camera EXCEPT ![i].phase = "failed", ![i].isLoading = FALSE,
                                ![i].hasPermissionError = TRUE]
    /\ error' = "camera"
    /\ UNCHANGED mountCount
    /\ UNCHANGED OtherVars

\* startCamera resumes with the stream
Resume(i) ==
    /\ camera[i].phase = "resolved"
    /\ camera' = [camera EXCEPT ![i] = Resumed(camera[i])]
    /\ UNCHANGED << mountCount, error >>
    /\ UNCHANGED OtherVars

\* onloadedmetadata: play() is called if the component is still mounted
LoadedMetadata(i) ==
    /\ camera[i].phase = "attached"
    /\ camera[i].play = "idle"
    /\ camera' = [camera EXCEPT ![i].play = IF camera[i].isMounted THEN "pending"
                                            ELSE "skipped"]
    /\ UNCHANGED << mountCount, error >>
    /\ UNCHANGED OtherVars

\* play() settles: setIsLoading(false) and onStreamReady, or onError
PlaySettles(i) ==
    /\ camera[i].play = "pending"
    /\ \/ /\ camera' = [camera EXCEPT ![i].play = "playing", ![i].isLoading = FALSE]
          /\ UNCHANGED error
       \/ /\ camera' = [camera EXCEPT ![i].play = "failed"]
          /\ error' = "play"
    /\ UNCHANGED mountCount
    /\ UNCHANGED OtherVars

\* the component unmounts: the cleanup of the effect
Unmount ==
    /\ mountCount > 0
    /\ camera[mountCount].isMounted
    /\ \E refAttached \in BOOLEAN :
          camera' = [camera EXCEPT ![mountCount] = CleanedUp(camera[mountCount], refAttached)]
    /\ UNCHANGED << mountCount, error >>
    /\ UNCHANGED OtherVars

NextCamera ==
    \/ Mount
    \/ Unmount
    \/ \E i \in DOMAIN camera : PreferredResolves(i)
    \/ \E i \in DOMAIN camera : PreferredRejects(i)
    \/ \E i \in DOMAIN camera : FallbackResolves(i)
    \/ \E i \in DOMAIN camera : FallbackRejects(i)
    \/ \E i \in DOMAIN camera : Resume(i)
    \/ \E i \in DOMAIN camera : LoadedMetadata(i)
    \/ \E i \in DOMAIN camera : PlaySettles(i)

SpecCamera == Init /\ [][NextCamera]_vars

(***************************************************************************)
(* App: the life cycle of the processing loop.  startProcessing starts a   *)
(* loop of its own after the await; the isStreaming effect starts another  *)
(* one when React runs it.  React decides when a passive effect runs: as a *)
(* task of its own, inside a setState call made outside an event handler   *)
(* (synchronous rendering flushes pending effects first), or before the    *)
(* render that follows an event handler.  All three are modelled.          *)
(***************************************************************************)
\* what a run of loop() may publish
LoopResults == { noResult, DetectedTable[HandFrame(90, Fingers, 120, 21, FALSE, FALSE)] }

\* trackingResult after the body of loop(): published only if the video is ready
Published(tr, ready, result) == IF ready THEN result ELSE tr

\* cancelAnimationFrame(animationFrameRef.current), guarded by `if (animationFrameRef.current)`
Cancelled(queue, handle) == queue \ {handle}

RestVars == << now, handLandmarker, drawingUtils, loopScheduled, frame, stateBeforeAbsent,
               faultSeen, stateRef, lastSpreadRef, lastSwitchTimeRef, lastVelocityTimeRef,
               autoRotate, targetRadius, targetAzimuth, scenario, velInRange, lastTransAt,
               lastQualTime, lastQualFired, particles, isLoading, topStarVisible, camera,
               mountCount, instances >>

\* a click on the toggle button while not streaming: startProcessing up to the await
ClickStart ==
    /\ ~isStreaming
    /\ ~appIsLoading
    /\ appIsLoading' = TRUE
    /\ error' = "null"
    /\ initializing' = TRUE
    /\ UNCHANGED << isStreaming, trackingResult, animationFrameRef, rafQueue, rafCounter,
                    effectPending, effectMounted >>
    /\ UNCHANGED RestVars

\* initialize() resolves: startProcessing sets the state and calls its loop().
\* With nested = TRUE the setTrackingResult of that loop() renders synchronously
\* and the pending isStreaming effect runs inside it, before the loop requests
\* its frame.
InitializeResolves ==
    \E ready \in BOOLEAN, nested \in BOOLEAN, r1 \in LoopResults, r2 \in LoopResults :
        /\ initializing
        /\ rafCounter + 2 <= MaxHandles
        /\ initializing' = FALSE
        /\ appIsLoading' = FALSE
        /\ isStreaming' = TRUE
        /\ IF ready /\ nested
           THEN /\ trackingResult' = r2
                /\ rafQueue' = Cancelled(rafQueue, animationFrameRef)
                                  \cup {rafCounter + 1, rafCounter + 2}
                /\ animationFrameRef' = rafCounter + 2
                /\ rafCounter' = rafCounter + 2
                /\ effectPending' = FALSE
                /\ effectMounted' = TRUE
           ELSE /\ trackingResult' = Published(trackingResult, ready, r1)
                /\ rafQueue' = rafQueue \cup {rafCounter + 1}
                /\ animationFrameRef' = rafCounter + 1
                /\ rafCounter' = rafCounter + 1
                /\ effectPending' = TRUE
                /\ UNCHANGED effectMounted
        /\ UNCHANGED error
        /\ UNCHANGED RestVars

\* initialize() rejects: the catch block of startProcessing
InitializeRejects ==
    /\ initializing
    /\ initializing' = FALSE
    /\ error' = "init"
    /\ appIsLoading' = FALSE
    /\ isStreaming' = FALSE
    /\ UNCHANGED << trackingResult, animationFrameRef, rafQueue, rafCounter, effectPending,
                    effectMounted >>
    /\ UNCHANGED RestVars

\* the isStreaming effect runs as a task of its own: it cancels the handle in
\* animationFrameRef and calls its loop()
StreamingEffect ==
    \E ready \in BOOLEAN, r \in LoopResults :
        /\ effectPending
        /\ rafCounter < MaxHandles
        /\ effectPending' = FALSE
        /\ effectMounted' = TRUE
        /\ trackingResult' = Published(trackingResult, ready, r)
        /\ rafQueue' = Cancelled(rafQueue, animationFrameRef) \cup {rafCounter + 1}
        /\ animationFrameRef' = rafCounter + 1
        /\ rafCounter' = rafCounter + 1
        /\ UNCHANGED << isStreaming, appIsLoading, initializing, error >>
        /\ UNCHANGED RestVars

\* the browser runs a requested frame callback: one run of loop()
AnimationFrame ==
    \E h \in rafQueue, ready \in BOOLEAN, r \in LoopResults :
        /\ rafCounter < MaxHandles
        /\ trackingResult' = Published(trackingResult, ready, r)
        /\ rafQueue' = (rafQueue \ {h}) \cup {rafCounter + 1}
        /\ animationFrameRef' = rafCounter + 1
        /\ rafCounter' = rafCounter + 1
        /\ UNCHANGED << isStreaming, appIsLoading, initializing, error, effectPending,
                        effectMounted >>
        /\ UNCHANGED RestVars

\* a click on the toggle button while streaming: stopProcessing and the render it
\* causes.  An isStreaming effect that is still pending runs before that render
\* (it cancels, calls its loop() and requests a frame); the render then runs the
\* cleanup of the effect, which cancels the handle in animationFrameRef.
ClickStop ==
    \E ready \in BOOLEAN, r \in LoopResults :
        /\ isStreaming
        /\ ~appIsLoading
        /\ effectPending => rafCounter < MaxHandles
        /\ isStreaming' = FALSE
        /\ rafQueue' = Cancelled(rafQueue, animationFrameRef)
        /\ IF effectPending
           THEN /\ trackingResult' = Published(HostNeutral, ready, r)
                /\ animationFrameRef' = rafCounter + 1
                /\ rafCounter' = rafCounter + 1
           ELSE /\ trackingResult' = HostNeutral
                /\ UNCHANGED << animationFrameRef, rafCounter >>
        /\ effectPending' = FALSE
        /\ effectMounted' = FALSE
        /\ UNCHANGED << appIsLoading, initializing, error >>
        /\ UNCHANGED RestVars

NextLifecycle ==
    \/ ClickStart
    \/ InitializeResolves
    \/ InitializeRejects
    \/ StreamingEffect
    \/ AnimationFrame
    \/ ClickStop

SpecLifecycle == Init /\ [][NextLifecycle]_vars

(***************************************************************************)
(* Properties                                                              *)
(***************************************************************************)
Neutral ==
    [x |-> 500, y |-> 500, isDetected |-> FALSE, gesture |-> "NONE", handSpread |-> Num(0)]

\* the spread (in 65ths) the run that leads to the primed state works with
TickSpread == NormalizedSpread(trackingResult'.handSpread)

\* C1: FormationState starts at TREE and every change of stateRef is TREE->EXPLODE
\* or TEXT->TREE on a velocity above +2.0, or EXPLODE->TEXT on a velocity below
\* -1.0, and happens only on a run more than 100 ms after the last sample and more
\* than 800 ms after the last transition.
C1_TransitionTable ==
    /\ stateRef = TREE
    /\ [][ stateRef' # stateRef =>
             LET dt == now' - lastVelocityTimeRef
                 ds == TickSpread - lastSpreadRef
             IN  /\ dt > 100
                 /\ now' - lastSwitchTimeRef > 800
                 /\ \/ stateRef = TREE /\ stateRef' = EXPLODE /\ ds * 1000 > 2 * 65 * dt
                    \/ stateRef = TEXT /\ stateRef' = TREE /\ ds * 1000 > 2 * 65 * dt
                    \/ stateRef = EXPLODE /\ stateRef' = TEXT /\ ds * 1000 < -1 * 65 * dt
         ]_vars

\* the machine has just returned from TEXT to TREE: all three rows have fired
C1_Witness == stateRef = TREE /\ lastTransAt = now /\ loopScheduled

\* the run that leads to the primed state is a qualifying trigger sample, and the
\* qualifying trigger sample before it was less than 800 ms earlier
ClosePair ==
    /\ now' # now
    /\ lastQualTime' = now'
    /\ lastQualTime >= 0
    /\ now' - lastQualTime < 800

\* C2 (as stated): two qualifying trigger samples less than 800 ms apart cause
\* exactly one state transition.
C2_ExactlyOne ==
    [][ ClosePair => (lastQualFired /\ ~lastQualFired') \/ (~lastQualFired /\ lastQualFired')
      ]_vars

\* C2 (amended): two qualifying trigger samples less than 800 ms apart cause at
\* most one state transition, and any two consecutive transitions are separated by
\* strictly more than 800 ms.
C2_Cooldown ==
    [][ /\ ClosePair => ~(lastQualFired /\ lastQualFired')
        /\ (stateRef' # stateRef /\ lastTransAt >= 0) => now' - lastTransAt > 800
      ]_vars

\* a qualifying sample has just been refused, less than 800 ms after a transition
C2_Witness ==
    /\ lastQualTime = now
    /\ ~lastQualFired
    /\ lastTransAt >= 0
    /\ now - lastTransAt < 800

\* C3: as long as every computed velocity lies in [-1.0, 2.0], stateRef is TREE and
\* lastSwitchTimeRef is never written.
C3_InRangeNeverSwitches == velInRange => (stateRef = TREE /\ lastSwitchTimeRef = 0)

\* a sample with a velocity of exactly 2.0 has been taken, all velocities in range
C3_Witness == velInRange /\ scenario = "atExpandThreshold"

\* C4: during a run of ticks with the hand absent the tracking result is the
\* neutral one and stateRef equals its value before the first absent tick.
C4_AbsentHandKeepsState ==
    stateBeforeAbsent # -1 => (trackingResult = Neutral /\ stateRef = stateBeforeAbsent)

\* C5: on a run with the sample due and the cooldown elapsed, a state and velocity
\* that match a row of the transition table give that row's next state in the same
\* run; in particular raw 0.30 -> 0.95 in 200 ms in TREE gives EXPLODE and raw
\* 0.9 -> 0.2 in 300 ms in EXPLODE gives TEXT.
C5_EnabledRulesFire ==
    [][ LET dt == now' - lastVelocityTimeRef
            ds == TickSpread - lastSpreadRef
            due == now' # now /\ dt > 100 /\ now' - lastSwitchTimeRef > 800
        IN  /\ (due /\ stateRef = TREE /\ ds * 1000 > 2 * 65 * dt) => stateRef' = EXPLODE
            /\ (due /\ stateRef = TEXT /\ ds * 1000 > 2 * 65 * dt) => stateRef' = TREE
            /\ (due /\ stateRef = EXPLODE /\ ds * 1000 < -1 * 65 * dt) => stateRef' = TEXT
            /\ ( due /\ stateRef = TREE /\ lastSpreadRef = 0 /\ dt = 200
                 /\ trackingResult'.handSpread = Num(95) ) => stateRef' = EXPLODE
            /\ ( due /\ stateRef = EXPLODE /\ lastSpreadRef = 55 /\ dt = 300
                 /\ trackingResult'.handSpread = Num(20) ) => stateRef' = TEXT
      ]_vars

\* the contraction scenario has just run and left the machine in TEXT
C5_Witness == scenario = "contract" /\ stateRef = TEXT /\ lastTransAt = now

\* C6 (as stated): after the run that moves TREE to EXPLODE, autoRotate is false.
C6_DisabledAfterExplode ==
    [][ (stateRef = TREE /\ stateRef' = EXPLODE) => autoRotate' = FALSE ]_vars

\* C6 (amended): after the run that moves TREE to EXPLODE, autoRotate is false
\* exactly when that run's tracking result is a detected POINTING; with any other
\* gesture label it is true.
C6_AfterExplode ==
    [][ (stateRef = TREE /\ stateRef' = EXPLODE) =>
          ( autoRotate' = FALSE <=>
              (trackingResult'.gesture = "POINTING" /\ trackingResult'.isDetected) )
      ]_vars

\* TREE -> EXPLODE has just fired on a GENERAL gesture and autoRotate is on
C6_Witness ==
    /\ stateRef = EXPLODE
    /\ lastTransAt = now
    /\ trackingResult.gesture = "GENERAL"
    /\ autoRotate = TRUE

\* C7: after every run of the effect autoRotate is false iff the tracking result
\* is a detected POINTING.
C7_AutoRotateIffNotPointing ==
    autoRotate = FALSE <=> (trackingResult.gesture = "POINTING" /\ trackingResult.isDetected)

\* a pointing tick outside TREE has switched autoRotate off
C7_Witness == autoRotate = FALSE /\ stateRef = EXPLODE /\ isStreaming

\* C8: every tracking result with isDetected = false is the neutral record with
\* handSpread = 0.
C8_NeutralWhenUndetected == ~trackingResult.isDetected => trackingResult = Neutral

\* C9: a frame on which detection or feature extraction throws yields the neutral
\* result and leaves the loop scheduled, and the result of a frame processed while
\* streaming is the result of that frame alone, whatever failed before it.
C9_ErrorBoundary ==
    /\ (isStreaming /\ ThrowsInTry(frame)) => (trackingResult = Neutral /\ loopScheduled)
    /\ (isStreaming /\ ~ThrowsInTry(frame)) =>
          /\ loopScheduled
          /\ trackingResult = IF frame.detect = "hand" THEN DetectedTable[frame] ELSE Neutral

\* a hand is detected on a frame processed after a failed one
C9_Witness == faultSeen /\ isStreaming /\ loopScheduled /\ trackingResult.isDetected

\* C10: a detected pose with middle, ring and pinky not extended and the index
\* extended is POINTING with the (mirrored) index tip as target, thumb or no thumb.
C10_IndexPointing ==
    trackingResult.isDetected =>
        LET lm == Landmarks(frame)
            ps == PalmScale(lm)
        IN  ( /\ ~isFingerExtended(lm, 12, 10, ps)
              /\ ~isFingerExtended(lm, 16, 14, ps)
              /\ ~isFingerExtended(lm, 20, 18, ps)
              /\ isFingerExtended(lm, 8, 6, ps) ) =>
            /\ trackingResult.gesture = "POINTING"
            /\ trackingResult.x = 1000 - lm[8].x
            /\ trackingResult.y = lm[8].y

\* index and thumb both extended, the others curled: the target is the index tip
C10_Witness ==
    /\ trackingResult.isDetected
    /\ frame.ext = {"index", "thumb"}
    /\ isThumbExtended(Landmarks(frame), PalmScale(Landmarks(frame)))
    /\ isFingerExtended(Landmarks(frame), 8, 6, PalmScale(Landmarks(frame)))
    /\ trackingResult.gesture = "POINTING"
    /\ trackingResult.x = 1000 - Landmarks(frame)[8].x

\* C11: a detected pose with middle, ring and pinky not extended, the index not
\* extended and the thumb extended is POINTING with the (mirrored) thumb tip,
\* landmark 4, as target.
C11_ThumbPointing ==
    trackingResult.isDetected =>
        LET lm == Landmarks(frame)
            ps == PalmScale(lm)
        IN  ( /\ ~isFingerExtended(lm, 12, 10, ps)
              /\ ~isFingerExtended(lm, 16, 14, ps)
              /\ ~isFingerExtended(lm, 20, 18, ps)
              /\ ~isFingerExtended(lm, 8, 6, ps)
              /\ isThumbExtended(lm, ps) ) =>
            /\ trackingResult.gesture = "POINTING"
            /\ trackingResult.x = 1000 - lm[4].x
            /\ trackingResult.y = lm[4].y

\* only the thumb is extended, on a hand away from the centre of the image: the
\* target is the thumb tip, not the index tip and not the centroid
C11_Witness ==
    /\ trackingResult.isDetected
    /\ frame.ext = {"thumb"}
    /\ frame.dx = 280
    /\ isThumbExtended(Landmarks(frame), PalmScale(Landmarks(frame)))
    /\ ~isFingerExtended(Landmarks(frame), 8, 6, PalmScale(Landmarks(frame)))
    /\ trackingResult.gesture = "POINTING"
    /\ trackingResult.x = 1000 - Landmarks(frame)[4].x
    /\ Landmarks(frame)[4].x # Landmarks(frame)[8].x

\* C12: a detected pose that matches neither pointing rule (one of middle, ring,
\* pinky extended, or neither index nor thumb extended) is GENERAL with the
\* (mirrored) arithmetic mean of the five fingertips 4, 8, 12, 16, 20 as target.
C12_GeneralCentroid ==
    trackingResult.isDetected =>
        LET lm == Landmarks(frame)
            ps == PalmScale(lm)
        IN  ( \/ isFingerExtended(lm, 12, 10, ps)
              \/ isFingerExtended(lm, 16, 14, ps)
              \/ isFingerExtended(lm, 20, 18, ps)
              \/ ~isFingerExtended(lm, 8, 6, ps) /\ ~isThumbExtended(lm, ps) ) =>
            /\ trackingResult.gesture = "GENERAL"
            /\ 5 * (1000 - trackingResult.x)
                  = lm[4].x + lm[8].x + lm[12].x + lm[16].x + lm[20].x
            /\ 5 * trackingResult.y
                  = lm[4].y + lm[8].y + lm[12].y + lm[16].y + lm[20].y

\* all five fingers curled, on a hand away from the centre of the image
C12_Witness ==
    /\ trackingResult.isDetected
    /\ frame.ext = {}
    /\ frame.dx = -100
    /\ \A g \in Fingers \ {"thumb"} :
          ~isFingerExtended(Landmarks(frame), Tip(g), Pip(g), PalmScale(Landmarks(frame)))
    /\ ~isThumbExtended(Landmarks(frame), PalmScale(Landmarks(frame)))
    /\ trackingResult.gesture = "GENERAL"
    /\ trackingResult.x = 600
    /\ trackingResult.y = 550

\* C13: for a detected pose x is 1 minus the raw x of the chosen target and y is
\* the raw y, for POINTING (the pointing fingertip) and for GENERAL (the fingertip
\* mean); a raw pointing target x = 0.75 gives x = 0.25 and the steering maps it to
\* the azimuth -(0.25 - 0.5) * 4 pi = pi.
C13_MirroredX ==
    trackingResult.isDetected =>
        LET lm == Landmarks(frame)
            tip == IF isFingerExtended(lm, 8, 6, PalmScale(lm)) THEN lm[8] ELSE lm[4]
        IN  /\ trackingResult.gesture = "POINTING" =>
                  /\ trackingResult.x = 1000 - tip.x
                  /\ trackingResult.y = tip.y
                  /\ targetAzimuth = Num(-(trackingResult.x - 500) * 4)
                  /\ tip.x = 750 => (trackingResult.x = 250 /\ targetAzimuth = Num(1000))
            /\ trackingResult.gesture = "GENERAL" =>
                  /\ 5 * (1000 - trackingResult.x)
                        = lm[4].x + lm[8].x + lm[12].x + lm[16].x + lm[20].x
                  /\ 5 * trackingResult.y
                        = lm[4].y + lm[8].y + lm[12].y + lm[16].y + lm[20].y
            /\ trackingResult.gesture \in {"POINTING", "GENERAL"}

\* the index tip at (0.75, 0.5) has been published as x = 0.25 and steered to pi
C13_Witness ==
    /\ trackingResult.isDetected
    /\ trackingResult.gesture = "POINTING"
    /\ Landmarks(frame)[8].x = 750
    /\ Landmarks(frame)[8].y = 500
    /\ trackingResult.x = 250
    /\ trackingResult.y = 500
    /\ targetAzimuth = Num(1000)

\* C14: every consumer of a gesture tick works with s = clamp((raw - 0.35) / 0.65,
\* 0, 1), never with the raw spread: the stored lastSpread is always an s in
\* [0, 1], the radius target is 200 - 145 s and so within [55, 200], and a state
\* change happens only on a velocity (s - lastSpread) / dt beyond a threshold.
C14_RemappedSpread ==
    /\ lastSpreadRef \in 0..65
    /\ [][ now' # now =>
             LET raw == trackingResult'.handSpread
                 s == TickSpread
                 dt == now' - lastVelocityTimeRef
             IN  /\ s \in 0..65
                 /\ raw.k = "num" =>
                       s = (IF raw.v - 35 < 0 THEN 0 ELSE IF raw.v - 35 > 65 THEN 65
                            ELSE raw.v - 35)
                 /\ targetRadius' = 200 * 65 - 145 * s
                 /\ targetRadius' >= 55 * 65
                 /\ targetRadius' <= 200 * 65
                 /\ lastSpreadRef' = (IF dt > 100 THEN s ELSE lastSpreadRef)
                 /\ lastSpreadRef' \in 0..65
                 /\ stateRef' # stateRef =>
                       \/ (s - lastSpreadRef) * 1000 > 2 * 65 * dt
                       \/ (s - lastSpreadRef) * 1000 < -1 * 65 * dt
         ]_vars

\* a raw spread of 1.8 has been sampled as s = 1 with the radius target at 55,
\* and the step from s = 1 caused no transition
C14_Witness ==
    /\ trackingResult.handSpread = Num(180)
    /\ lastSpreadRef = 65
    /\ lastVelocityTimeRef = now
    /\ targetRadius = 55 * 65
    /\ stateRef = TREE
    /\ lastSwitchTimeRef = 0

\* C15: a gesture tick whose tracking result has isDetected = false leaves the
\* velocity sample (lastSpreadRef, lastVelocityTimeRef) and the radius target as
\* they were after the previous tick.
C15_UndetectedNotConsumed ==
    [][ (now' # now /\ ~trackingResult'.isDetected) =>
          /\ lastSpreadRef' = lastSpreadRef
          /\ lastVelocityTimeRef' = lastVelocityTimeRef
          /\ targetRadius' = targetRadius
      ]_vars

\* C16: the result processVideoFrame returns for a frame when a debug canvas is
\* supplied equals the result for the same frame without a debug canvas, also
\* when drawing on the canvas fails.
C16_OverlayNonInterference ==
    [][ handLandmarker' = handLandmarker =>
          trackingResult' = processVideoFrame(handLandmarker, WithoutCanvas(frame')).result
      ]_vars

\* C17: a pose with fewer than 21 landmarks, or with a NaN coordinate in a
\* landmark that is used, never yields a result with isDetected = true.
C17_InvalidInputUndetected ==
    trackingResult.isDetected => (frame.count >= 21 /\ frame.nan = -1)

\* C18: until the font load completes every particle's textPos equals its treePos,
\* so a render tick in the TEXT state blends the particles towards the tree
\* positions; the load callback can run in every state in which it has not run.
C18_AssetNotReady ==
    /\ \A i \in DOMAIN particles : particles[i].textPos = particles[i].treePos
    /\ [][
          /\ isLoading' =>
                \A i \in DOMAIN particles : particles'[i].textPos = particles'[i].treePos
          /\ ( isLoading /\ stateRef = TEXT
               /\ particles'[0].rotation # particles[0].rotation ) =>
                \A i \in DOMAIN particles :
                   LET c == particles[i].currentPos
                       t == particles[i].treePos
                       q == particles'[i].currentPos
                   IN  /\ 100 * (q.x - c.x) <= 3 * (t.x - c.x) + 99
                       /\ 100 * (q.x - c.x) >= 3 * (t.x - c.x) - 99
                       /\ 100 * (q.y - c.y) <= 3 * (t.y - c.y) + 99
                       /\ 100 * (q.y - c.y) >= 3 * (t.y - c.y) - 99
          /\ isLoading => ENABLED FontLoad
       ]_vars

\* the font still loading, one render tick in EXPLODE and one in TEXT: the second
\* one has moved particle 0 back towards its tree position
C18_Witness ==
    /\ isLoading
    /\ stateRef = TEXT
    /\ particles[0].rotation = 2
    /\ particles[0].currentPos.x = -1748

\* C19: treePos and explodePos never change, textPos changes only in the font
\* load callback, which runs at most once; render ticks and gesture ticks leave
\* all three targets of every particle alone.
C19_TargetsImmutable ==
    [][
        /\ \A i \in DOMAIN particles :
              /\ particles'[i].treePos = particles[i].treePos
              /\ particles'[i].explodePos = particles[i].explodePos
              /\ particles'[i].textPos # particles[i].textPos => (isLoading /\ ~isLoading')
              /\ ( now' # now \/ particles'[i].rotation # particles[i].rotation ) =>
                    particles'[i].textPos = particles[i].textPos
        /\ now' # now => particles' = particles
        /\ ~isLoading => ~isLoading'
    ]_vars

\* the font has loaded, the machine has reached TEXT and the particles have moved
C19_Witness ==
    /\ ~isLoading
    /\ stateRef = TEXT
    /\ particles[0].rotation = MaxRenderTicks
    /\ particles[0].textPos # particles[0].treePos
    /\ particles[0].currentPos # particles[0].treePos

\* C20: a render tick sets currentPos to lerp(currentPos, target of the active
\* state, 0.03); with the state and target fixed the distance to the target never
\* grows (on either axis), a particle away from its target does not reach it in
\* one tick, and after ConvergeTicks ticks it is within Epsilon of it.
C20_LerpConverges ==
    [][ \A i \in DOMAIN particles :
          LET c == particles[i].currentPos
              q == particles'[i].currentPos
              t == IF stateRef = 1 THEN particles[i].explodePos
                   ELSE IF stateRef = 2 THEN particles[i].textPos
                   ELSE particles[i].treePos
              Abs(n) == IF n < 0 THEN 0 - n ELSE n
          IN  /\ Abs(100 * (q.x - c.x) - 3 * (t.x - c.x)) < 100
              /\ Abs(100 * (q.y - c.y) - 3 * (t.y - c.y)) < 100
              /\ Abs(t.x - q.x) <= Abs(t.x - c.x)
              /\ Abs(t.y - q.y) <= Abs(t.y - c.y)
              /\ c # t => q # t
              /\ particles'[i].rotation >= ConvergeTicks =>
                    (Abs(t.x - q.x) < Epsilon /\ Abs(t.y - q.y) < Epsilon)
      ]_vars

\* ConvergeTicks ticks in EXPLODE: particle 0 has left its start, is within
\* Epsilon of explodePos and has not reached it
C20_Witness ==
    /\ stateRef = EXPLODE
    /\ particles[0].rotation = ConvergeTicks
    /\ particles[0].currentPos # particles[0].explodePos
    /\ particles[0].currentPos.x > particles[0].explodePos.x - Epsilon
    /\ particles[0].currentPos.y > particles[0].explodePos.y - Epsilon

\* C21: a pose and the same pose with every landmark coordinate multiplied by the
\* same positive factor (here 1/2) get the same spread, the same finger-extension
\* decisions and the same gesture label.
C21_ScaleInvariant ==
    (trackingResult.isDetected /\ frame.shrink = 2) =>
        LET small == Landmarks(frame)
            full == Landmarks([frame EXCEPT !.shrink = 1])
            ps == PalmScale(small)
            pf == PalmScale(full)
            r == DetectedTable[[frame EXCEPT !.shrink = 1]]
        IN  /\ \A i \in DOMAIN small :
                  full[i].x = 2 * small[i].x /\ full[i].y = 2 * small[i].y
            /\ pf.v = 2 * ps.v
            /\ trackingResult.handSpread = r.handSpread
            /\ trackingResult.gesture = r.gesture
            /\ isThumbExtended(small, ps) = isThumbExtended(full, pf)
            /\ \A g \in Fingers \ {"thumb"} :
                  isFingerExtended(small, Tip(g), Pip(g), ps)
                     = isFingerExtended(full, Tip(g), Pip(g), pf)

\* a half-size hand pointing with the thumb, spread 0.9 as at full size
C21_Witness ==
    /\ trackingResult.isDetected
    /\ frame.shrink = 2
    /\ frame.ext = {"thumb"}
    /\ PalmScale(Landmarks(frame)) = Num(60)
    /\ trackingResult.gesture = "POINTING"
    /\ trackingResult.handSpread = Num(90)

\* C22: a run at most 100 ms after the last sample leaves lastSpreadRef,
\* lastVelocityTimeRef, stateRef and lastSwitchTimeRef unchanged; a run more than
\* 100 ms after it stores the run's normalized spread and timestamp, whether or
\* not a transition fires or the cooldown refuses it.
C22_SampleGating ==
    [][ now' # now =>
          LET dt == now' - lastVelocityTimeRef
          IN  /\ dt <= 100 =>
                   UNCHANGED << lastSpreadRef, lastVelocityTimeRef, stateRef,
                                lastSwitchTimeRef >>
              /\ dt > 100 =>
                   lastSpreadRef' = TickSpread /\ lastVelocityTimeRef' = now'
      ]_vars

\* a run exactly 100 ms after a sample saw a fully open hand and stored nothing
C22_Witness ==
    /\ now - lastVelocityTimeRef = 100
    /\ lastVelocityTimeRef > MountTime
    /\ NormalizedSpread(trackingResult.handSpread) = SpreadRange
    /\ lastSpreadRef = 0

\* C23 (as stated): from EXPLODE there is a run on which the state goes to TREE in
\* one step.
C23_ExplodeToTreeEdge ==
    (stateRef = EXPLODE /\ now + 1000 <= MaxTime) =>
        ENABLED (EffectRun /\ stateRef' = TREE)

\* C23 (amended): no run takes the state from EXPLODE to TREE; the only return
\* transition is TEXT -> TREE, which a full opening of the hand within 200 ms
\* takes once the cooldown has elapsed.
C23_OnlyTextReturns ==
    /\ [][ ~(stateRef = EXPLODE /\ stateRef' = TREE) ]_vars
    /\ []( ( /\ stateRef = TEXT
             /\ lastSpreadRef = 0
             /\ lastVelocityTimeRef = now
             /\ now + 200 <= MaxTime
             /\ now + 200 - lastSwitchTimeRef > 800 )
           => ENABLED (EffectRun /\ stateRef' = TREE) )

\* a rapid expansion has just run in EXPLODE with the cooldown elapsed, and the
\* state is still EXPLODE
C23_Witness == scenario = "expandInExplode" /\ stateRef = EXPLODE /\ lastTransAt < now

\* C25: lastSwitchTimeRef is written on a run if and only if stateRef changes on
\* that run (and then it is the run's timestamp); a velocity beyond a threshold
\* that has no rule in the current state, or one refused by the cooldown, leaves
\* lastSwitchTimeRef alone; a run changes the state at most once.
C25_SwitchTimeIffChange ==
    [][ now' # now =>
          LET dt == now' - lastVelocityTimeRef
              ds == TickSpread - lastSpreadRef
              beyond == dt > 100 /\ ( \/ ds * 1000 > 2 * 65 * dt
                                      \/ ds * 1000 < -1 * 65 * dt )
          IN  /\ lastSwitchTimeRef' # lastSwitchTimeRef <=> stateRef' # stateRef
              /\ stateRef' # stateRef => lastSwitchTimeRef' = now'
              /\ (beyond /\ ~Qualifies(stateRef, ds, dt)) =>
                   UNCHANGED << stateRef, lastSwitchTimeRef >>
              /\ (beyond /\ now' - lastSwitchTimeRef <= 800) =>
                   UNCHANGED << stateRef, lastSwitchTimeRef >>
              /\ stateRef' \in {stateRef, (stateRef + 1) % 3}
      ]_vars

\* a rapid contraction has just run in TEXT with the cooldown elapsed: the state
\* and the time of the last transition are as they were
C25_Witness ==
    /\ scenario = "contractNoRule"
    /\ stateRef = TEXT
    /\ lastSwitchTimeRef < now
    /\ lastTransAt = lastSwitchTimeRef

\* C26: a qualifying sample that arrives while the cooldown is running changes no
\* state but still overwrites lastSpreadRef and lastVelocityTimeRef; a later run
\* changes the state only if its own velocity, measured from the stored
\* lastSpreadRef and lastVelocityTimeRef, qualifies in the current state.
C26_BlockedSampleConsumed ==
    [][ now' # now =>
          LET dt == now' - lastVelocityTimeRef
              ds == TickSpread - lastSpreadRef
              qualifies == dt > 100 /\ Qualifies(stateRef, ds, dt)
              blockedBefore == lastQualTime >= 0 /\ ~lastQualFired
          IN  /\ (qualifies /\ now' - lastSwitchTimeRef <= 800) =>
                   /\ UNCHANGED << stateRef, lastSwitchTimeRef >>
                   /\ lastSpreadRef' = TickSpread
                   /\ lastVelocityTimeRef' = now'
              /\ stateRef' # stateRef => qualifies
              /\ (blockedBefore /\ ~qualifies) => stateRef' = stateRef
      ]_vars

\* a qualifying sample was refused during the cooldown of a transition, and a
\* sample taken after the cooldown expired has not changed the state
C26_Witness ==
    /\ lastQualTime >= 0
    /\ ~lastQualFired
    /\ lastQualTime < now
    /\ lastSwitchTimeRef > 0
    /\ lastQualTime > lastSwitchTimeRef
    /\ lastQualTime - lastSwitchTimeRef <= 800
    /\ now - lastSwitchTimeRef > 800
    /\ lastVelocityTimeRef = now
    /\ lastTransAt = lastSwitchTimeRef

\* C30: on every sample the velocity is at most 1/dt and below 10 in size; a rapid
\* expansion changes the state only on a sample less than 500 ms after the
\* previous one and a rapid contraction only on one less than 1000 ms after it; a
\* raw spread below 0.35 after a sample stored as 0, or above 1.0 after a sample
\* stored as 1, changes no state.
C30_VelocityBounds ==
    [][ (now' # now /\ now' - lastVelocityTimeRef > 100) =>
          LET dt == now' - lastVelocityTimeRef
              ds == TickSpread - lastSpreadRef
              size == IF ds < 0 THEN 0 - ds ELSE ds
              raw == trackingResult'.handSpread
          IN  /\ size <= SpreadRange
              /\ size * 1000 < 10 * SpreadRange * dt
              /\ (stateRef' # stateRef /\ stateRef \in {TREE, TEXT}) => dt < 500
              /\ (stateRef' # stateRef /\ stateRef = EXPLODE) => dt < 1000
              /\ (lastSpreadRef = 0 /\ raw.k = "num" /\ raw.v < 35) =>
                   stateRef' = stateRef
              /\ (lastSpreadRef = SpreadRange /\ raw.k = "num" /\ raw.v > 100) =>
                   stateRef' = stateRef
      ]_vars

\* the hand went from closed to fully open over exactly 500 ms with the cooldown
\* elapsed, and no transition fired
C30_Witness == scenario = "fullExpandIn500" /\ lastTransAt < now /\ lastSpreadRef = SpreadRange

\* C24: for every pose of 21 landmarks with coordinates in [0,1], a palmScale of 0
\* included, a tracking result with isDetected = true has x and y in [0,1] and a
\* handSpread that is a finite number >= 0.
C24_DetectedResultInRange ==
    ( /\ trackingResult.isDetected
      /\ frame.count = 21
      /\ frame.nan = -1
      /\ \A i \in 0..20 : /\ LandmarkAt(frame, i).x \in 0..Grid
                          /\ LandmarkAt(frame, i).y \in 0..Grid )
    => /\ trackingResult.x \in 0..Grid
       /\ trackingResult.y \in 0..Grid
       /\ trackingResult.handSpread.k = "num"
       /\ trackingResult.handSpread.v >= 0

\* C28: whatever shapes are drawn, the meshIndex of every particle is smaller than
\* the instance count of the mesh of its shape, and no two particles of the same
\* shape share a meshIndex.
C28_InstanceCapacity ==
    /\ \A i \in DOMAIN instances :
          instances[i].meshIndex < CapacityOf(instances[i].type)
    /\ \A i, j \in DOMAIN instances :
          (i # j /\ instances[i].type = instances[j].type)
             => instances[i].meshIndex # instances[j].meshIndex

\* C29: once a mount of the video component is unmounted, the stream it obtained,
\* through the preferred request or the fallback one, has no live track: a stream
\* attached before the unmount is stopped by the cleanup, and a stream that
\* arrives after the unmount is stopped when startCamera resumes with it.
C29_StreamReleased ==
    /\ \A i \in DOMAIN camera :
          (~camera[i].isMounted /\ camera[i].phase \in {"attached", "discarded", "failed"})
             => camera[i].liveTracks = {}
    /\ [][ \A i \in DOMAIN camera :
             /\ (camera[i].isMounted /\ ~camera'[i].isMounted /\ camera[i].currentStream)
                   => camera'[i].liveTracks = {}
             /\ (camera[i].phase = "resolved" /\ camera'[i].phase # "resolved"
                 /\ ~camera[i].isMounted)
                   => (camera'[i].liveTracks = {} /\ ~camera'[i].currentStream)
             /\ (camera[i].liveTracks = {} /\ camera'[i].liveTracks # {})
                   => camera[i].phase \in {"preferred", "fallback"}
         ]_vars

\* one mount was unmounted with its stream attached, another while its fallback
\* request was pending; both streams have been stopped
C29_Witness ==
    \E i, j \in DOMAIN camera :
        /\ camera[i].phase = "attached" /\ ~camera[i].isMounted
        /\ camera[i].liveTracks = {}
        /\ camera[j].phase = "discarded" /\ camera[j].attempts = 2
        /\ camera[j].liveTracks = {}

\* C27: however the loop start of startProcessing, the loop start of the
\* isStreaming effect and stopProcessing interleave, at most one frame callback
\* is requested at any time, and while processing is stopped (not streaming, no
\* start under way) trackingResult is the neutral value.
C27_SingleLoopQuietStop ==
    /\ Cardinality(rafQueue) <= 1
    /\ (~isStreaming /\ ~appIsLoading /\ ~initializing) => trackingResult = HostNeutral

====
